---- MODULE Spec2Model ----
(***************************************************************************)
(* Model of pycircuit/circuit/analysis.py: reference-node elimination      *)
(* (remove_row_col and the concatenate reinsertion), the transient, AC,    *)
(* transimpedance and noise analyses.                                      *)
(*                                                                         *)
(* Arrays are records [shape |-> <<..>>, data |-> ..]: a vector has a      *)
(* one-element shape and a sequence of numbers as data, a matrix a         *)
(* two-element shape and a sequence of rows.  Python indices are 0-based,  *)
(* sequences here 1-based: the element at Python index i is data[i+1].     *)
(*                                                                         *)
(* The module runs on Python 2 only (xrange, types.StringType, implicit    *)
(* relative imports), hence on numpy <= 1.16: numpy.delete with a list of  *)
(* indices ignores the indices that are negative or out of bounds.         *)
(***************************************************************************)
EXTENDS Integers, Sequences, FiniteSets, TLC

\* The circuit has NumNodes nodes, the reference node among them.
NumNodes == 2
\* A solve starts while the entries of the arrays a circuit keeps are in
\* -MaxStamp..MaxStamp.
MaxStamp == 4
\* A transient solve covers at most MaxSteps time points.
MaxSteps == 2
\* Real and imaginary part of a gain the circuit's extraction returns are
\* in -MaxGain..MaxGain.
MaxGain == 1
\* Largest dimension n of the arrays handed to remove_row_col.
MaxN == 3
\* Entries of the vectors handed to remove_row_col are 1..MaxElem.
MaxElem == 2

VARIABLES
    ePc,        \* remove_row_col round trip: "input", "eliminated", "reinserted"
    eArgs,      \* the tuple `matrices` passed to remove_row_col
    eR,         \* the index `n` passed to remove_row_col
    eOut,       \* outcome of remove_row_col: [status, value]
    eBack,      \* the vector outputs after concatenate((x[:r], [0.0], x[r:]))
    cIref,      \* the circuit: index of the reference node among its nodes
    cCir,       \* the circuit: its stamps at rest and away from rest
    cShared,    \* the circuit: G(x) and u(x) return the same array object each call
    cG,         \* the array G(x) returned last: contents when returned, and now
    cU,         \* the array u(x) returned last: contents when returned, and now
    nPc,        \* Noise: "new", "constructed", "ctorFailed", "solved", "solveFailed"
    nArgs,      \* Noise.__init__ arguments inputsrc, outputnodes, outputsrc
    nErr,       \* the exception Noise.__init__ or Noise.solve raised, or NoError
    nSelf,      \* the attributes of the Noise object
    nRes,       \* the mapping Noise.solve returned: [keys, val]
    aKind,      \* the analysis object: "Tran_spec", "Tran_imp", "AC", "Transimpedance"
    aPc,        \* its solve: "idle", "loop", "returned", "raised"
    aResult,    \* its attribute self.result: [set, X]; set = FALSE is None
    aRet,       \* what the last solve returned: [set, X]
    aErr,       \* the exception the last solve raised, "none" if none
    tX,         \* transient solve: the local list X of states
    tNum,       \* transient solve: the number of time points, int(tend/dt)
    tK,         \* transient solve: the number of time points done
    tRdt,       \* transient solve: 1/dt for the step dt linspace returned
    tDtNaN,     \* transient solve: linspace returned the step nan
    tSingular   \* transient solve: the step that raised had a singular G

elimVars == <<ePc, eArgs, eR, eOut, eBack>>

noiseVars == <<nPc, nArgs, nErr, nSelf, nRes>>

solveVars == <<aKind, aPc, aResult, aRet, aErr, tX, tNum, tK, tRdt, tDtNaN, tSingular>>

cirVars == <<cIref, cCir, cShared, cG, cU>>

vars == <<elimVars, cirVars, noiseVars, solveVars>>

-----------------------------------------------------------------------------
(* numpy arrays *)

Vec(data) == [shape |-> <<Len(data)>>, data |-> data]

Mat(rows, cols, data) == [shape |-> <<rows, cols>>, data |-> data]

NDim(A) == Len(A.shape)

\* s without the element at Python index i (0 <= i < Len(s)).
SeqDel(s, i) == [k \in 1..(Len(s) - 1) |-> IF k <= i THEN s[k] ELSE s[k + 1]]

\* Delete removing the element after the one asked for.
DeleteOffByOne(A, obj, axis) ==
    LET N == A.shape[axis + 1]
        o == obj + 1
    IN  IF ~(o >= 0 /\ o < N)
        THEN A
        ELSE IF NDim(A) = 1
             THEN [shape |-> <<N - 1>>, data |-> SeqDel(A.data, o)]
             ELSE IF axis = 0
                  THEN [shape |-> <<N - 1, A.shape[2]>>, data |-> SeqDel(A.data, o)]
                  ELSE [shape |-> <<A.shape[1], N - 1>>,
                        data |-> [i \in 1..A.shape[1] |-> SeqDel(A.data[i], o)]]

\* numpy.delete(A, [obj], axis=axis) of numpy <= 1.16: an index outside
\* [-N, N) is ignored (DeprecationWarning), a negative index is ignored
\* (FutureWarning); the result is then a copy of A.
Delete(A, obj, axis) ==
    LET N == A.shape[axis + 1]
    IN  IF ~(obj >= 0 /\ obj < N)
        THEN A
        ELSE IF NDim(A) = 1
             THEN [shape |-> <<N - 1>>, data |-> SeqDel(A.data, obj)]
             ELSE IF axis = 0
                  THEN [shape |-> <<N - 1, A.shape[2]>>, data |-> SeqDel(A.data, obj)]
                  ELSE [shape |-> <<A.shape[1], N - 1>>,
                        data |-> [i \in 1..A.shape[1] |-> SeqDel(A.data[i], obj)]]

\* The inner loop of remove_row_col: for axis in range(len(A.shape)).
RECURSIVE DeleteAxes(_, _, _)
DeleteAxes(A, n, axis) ==
    IF axis >= NDim(A) THEN A ELSE DeleteAxes(Delete(A, n, axis), n, axis + 1)

\* remove_row_col(matrices, n): one output per argument, in argument order.
\* It validates nothing and raises nothing on arrays.
remove_row_col(matrices, n) ==
    [status |-> "ok",
     value  |-> [a \in 1..Len(matrices) |-> DeleteAxes(matrices[a], n, 0)]]

\* Python's x[:r] and x[r:] on a sequence.
PyClamp(len, r) == IF r < 0 THEN (IF len + r < 0 THEN 0 ELSE len + r)
                            ELSE (IF r > len THEN len ELSE r)

SliceTo(x, r) == SubSeq(x, 1, PyClamp(Len(x), r))

SliceFrom(x, r) == SubSeq(x, PyClamp(Len(x), r) + 1, Len(x))

\* Reinsert putting the zero one position late.
ReinsertAfter(x, irefnode) == SliceTo(x, irefnode + 1) \o <<0>> \o SliceFrom(x, irefnode + 1)

\* concatenate((x[:irefnode], array([0.0]), x[irefnode:]))
Reinsert(x, irefnode) == SliceTo(x, irefnode) \o <<0>> \o SliceFrom(x, irefnode)

-----------------------------------------------------------------------------
(* Linear algebra on arrays, exact over the integers *)

Abs(a) == IF a < 0 THEN 0 - a ELSE a

RECURSIVE SumTo(_, _)
\* f[1] + ... + f[k]
SumTo(f, k) == IF k = 0 THEN 0 ELSE f[k] + SumTo(f, k - 1)

\* zeros(n)
Zeros(n) == Vec([i \in 1..n |-> 0])

\* dot(u, v) of two vectors
Dot(u, v) == SumTo([i \in 1..Len(u.data) |-> u.data[i] * v.data[i]], Len(u.data))

\* dot(A, v) of a matrix and a vector
MatVec(A, v) ==
    Vec([i \in 1..A.shape[1] |->
            SumTo([j \in 1..A.shape[2] |-> A.data[i][j] * v.data[j]], A.shape[2])])

\* dot(v, A) of a vector and a matrix
VecMat(v, A) ==
    Vec([j \in 1..A.shape[2] |->
            SumTo([i \in 1..A.shape[1] |-> v.data[i] * A.data[i][j]], A.shape[1])])

\* A + B
MatAdd(A, B) ==
    Mat(A.shape[1], A.shape[2],
        [i \in 1..A.shape[1] |-> [j \in 1..A.shape[2] |-> A.data[i][j] + B.data[i][j]]])

\* u + v
VecAdd(u, v) == Vec([i \in 1..Len(u.data) |-> u.data[i] + v.data[i]])

\* k * A
MatScale(k, A) ==
    Mat(A.shape[1], A.shape[2],
        [i \in 1..A.shape[1] |-> [j \in 1..A.shape[2] |-> k * A.data[i][j]]])

\* -v
VecNeg(v) == Vec([i \in 1..Len(v.data) |-> 0 - v.data[i]])

\* A.T
Transpose(A) ==
    Mat(A.shape[2], A.shape[1],
        [j \in 1..A.shape[2] |-> [i \in 1..A.shape[1] |-> A.data[i][j]]])

\* u with u[i] = val (i a Python index)
VecSet(u, i, val) == Vec([u.data EXCEPT ![i + 1] = val])

RECURSIVE Det(_)
\* The determinant of a square matrix, by expansion along the first row.
Det(A) ==
    LET n == A.shape[1] IN
    IF n = 0 THEN 1
    ELSE SumTo([j \in 1..n |->
                  (IF j % 2 = 1 THEN 1 ELSE 0 - 1) * A.data[1][j]
                    * Det(Delete(Delete(A, 0, 0), j - 1, 1))], n)

\* A with column j (1-based) replaced by the vector b
ReplaceCol(A, j, b) ==
    Mat(A.shape[1], A.shape[2],
        [i \in 1..A.shape[1] |-> [k \in 1..A.shape[2] |->
            IF k = j THEN b.data[i] ELSE A.data[i][k]]])

\* Whether the solution of A x = b is a vector of integers.
Representable(A, b) ==
    Det(A) # 0 => \A j \in 1..A.shape[2] : Det(ReplaceCol(A, j, b)) % Abs(Det(A)) = 0

\* The solution x of A x = b (Cramer's rule) of a linear solver that fails
\* on a singular coefficient matrix.
LinSolve(A, b) ==
    LET d == Det(A) IN
    IF d = 0 THEN [status |-> "singular", x |-> Vec(<<>>)]
    ELSE [status |-> "ok",
          x |-> Vec([j \in 1..A.shape[2] |->
                      (IF d < 0 THEN 0 - 1 ELSE 1)
                        * (Det(ReplaceCol(A, j, b)) \div Abs(d))])]

-----------------------------------------------------------------------------
(* The circuit collaborator *)

\* The elements of the circuit by instance name, with their kind.
CirElements == [vs |-> "VS", is |-> "IS", R1 |-> "R"]

\* The branches of the circuit: one for each voltage source.
NumBranches == Cardinality({e \in DOMAIN CirElements : CirElements[e] = "VS"})

\* cir.n
CirN == NumNodes + NumBranches

\* Python indices of the nodes and of the branches in a state vector.
NodeIdx == 0..(NumNodes - 1)

\* cir.get_branch_index(branch) of branch number b (0-based)
get_branch_index(b) == NumNodes + b

IdentityM(n) == Mat(n, n, [i \in 1..n |-> [j \in 1..n |-> IF i = j THEN 1 ELSE 0]])

ZeroM(n) == Mat(n, n, [i \in 1..n |-> [j \in 1..n |-> 0]])

\* Every entry 1: singular once the dimension is 2 or more.
OnesM(n) == Mat(n, n, [i \in 1..n |-> [j \in 1..n |-> 1]])

\* Ones on and right above the diagonal.
UpperM(n) ==
    Mat(n, n, [i \in 1..n |-> [j \in 1..n |-> IF j = i \/ j = i + 1 THEN 1 ELSE 0]])

\* Ones right above the diagonal.
NilM(n) == Mat(n, n, [i \in 1..n |-> [j \in 1..n |-> IF j = i + 1 THEN 1 ELSE 0]])

\* The matrices cir.G(x), cir.C(x) and cir.CY(x, w) may return.
GStamps == {IdentityM(CirN), UpperM(CirN), OnesM(CirN)}

CStamps == {ZeroM(CirN), NilM(CirN), MatScale(0 - 1, IdentityM(CirN))}

CYStamps == {IdentityM(CirN), OnesM(CirN)}

\* The vectors cir.u(x) may return.
UStamps == {Vec([i \in 1..CirN |-> k]) : k \in {0, 1}}

\* The circuits: G(x) is g0 at the state zeros(n) and g1 away from it,
\* C(x) and u(x) do not depend on x.
Circuits == [g0 : GStamps, g1 : GStamps, c : CStamps, u : UStamps]

\* The circuit of the specifications that draw the stamps in their actions.
AnyCircuit == [g0 |-> IdentityM(CirN), g1 |-> IdentityM(CirN), c |-> ZeroM(CirN),
               u |-> Zeros(CirN)]

\* cir.G(x), cir.C(x), cir.u(x)
CirG(cir, x) == IF x = Zeros(CirN) THEN cir.g0 ELSE cir.g1

CirC(cir, x) == cir.c

CirU(cir, x) == cir.u

\* The value standing for a floating-point nan in an array.
NaN == -999

\* An array object the circuit has handed out: its contents at that moment
\* and its contents now.
Handed(A) == [given |-> A, now |-> A]

\* The array objects of a circuit no analysis has touched.
FreshStamps(cir) == cG = Handed(cir.g0) /\ cU = Handed(cir.u)

\* The array self.cir.G(x) returns: the one object of a circuit that keeps
\* its arrays, with whatever it holds now, or a new array.
StampG(cir, shared, obj, x) == IF shared THEN obj.now ELSE CirG(cir, x)

\* The array self.cir.u(x) returns.
StampU(cir, shared, obj, x) == IF shared THEN obj.now ELSE CirU(cir, x)

\* The arrays hold nan, or entries of magnitude at most bound.
StampsWithin(G, u, bound) ==
    /\ \A i \in 1..Len(G.data), j \in 1..Len(G.data) :
          G.data[i][j] = NaN \/ Abs(G.data[i][j]) <= bound
    /\ \A i \in 1..Len(u.data) : u.data[i] = NaN \/ Abs(u.data[i]) <= bound

\* The complex frequencies s the analyses are solved at (complexfreq=True).
Freqs == {0, 1}

\* cir[name]: the element, or a failed lookup.
CirLookup(arg) ==
    IF arg.type = "str" /\ arg.name \in DOMAIN CirElements
    THEN [ok |-> TRUE, kind |-> CirElements[arg.name]]
    ELSE [ok |-> FALSE, kind |-> "none"]

\* cir.get_terminal_branch(instjoin(name, 'plus'))[0]: only a voltage
\* source has a branch; it is branch number 0.
TerminalBranch(name) ==
    IF name \in DOMAIN CirElements /\ CirElements[name] = "VS"
    THEN [ok |-> TRUE, branch |-> 0]
    ELSE [ok |-> FALSE, branch |-> 0]

-----------------------------------------------------------------------------
(* Analysis, Tran_spec, Tran_imp *)

NoStates == [set |-> FALSE, X |-> <<>>]

States(X) == [set |-> TRUE, X |-> X]

\* Analysis.__init__: self.result = None; no solve is running.
SolveIdle(kind) ==
    /\ aKind = kind
    /\ aPc = "idle"
    /\ aResult = NoStates
    /\ aRet = NoStates
    /\ aErr = "none"
    /\ tX = <<>>
    /\ tNum = 0
    /\ tK = 0
    /\ tRdt = 1
    /\ tDtNaN = FALSE
    /\ tSingular = FALSE

\* The reciprocals 1/dt of the steps linspace may return.
RdtValues == {1, 2}

\* The length of the states in X: Tran_spec keeps the reference node,
\* Tran_imp does not (zeros(n) and zeros(n-1)).
StateLen(kind) == IF kind = "Tran_spec" THEN CirN ELSE CirN - 1

\* order: the number of past x-values needed
Order(kind) == IF kind = "Tran_spec" THEN 2 ELSE 1

\* The initial states x a caller starts from: x0=None, or a vector x0.
InitialStates(kind) ==
    {Zeros(StateLen(kind)), Vec([i \in 1..StateLen(kind) |-> 1])}

\* Tran_spec.solve and Tran_imp.solve up to the loop: X holds `order`
\* copies of x, and times, dt = np.linspace(0, tend, num=int(tend/dt),
\* endpoint=True, retstep=True).  For num <= 1 linspace returns the step
\* nan (numpy 1.9 to 1.16) or an array alone, which fails to unpack
\* (older numpy).
TranStart ==
    /\ aKind \in {"Tran_spec", "Tran_imp"}
    /\ aPc \in {"idle", "returned", "raised"}
    /\ cShared => StampsWithin(cG.now, cU.now, MaxStamp)
    /\ aRet' = NoStates
    /\ tK' = 0
    /\ tSingular' = FALSE
    /\ \E x \in InitialStates(aKind), num \in 0..MaxSteps, rdt \in RdtValues :
          /\ tX' = [i \in 1..Order(aKind) |-> x]
          /\ tNum' = num
          /\ \/ /\ num >= 2
                /\ tRdt' = rdt
                /\ tDtNaN' = FALSE
                /\ aPc' = "loop"
                /\ aErr' = "none"
             \/ /\ num <= 1
                /\ tRdt' = 1
                /\ tDtNaN' = TRUE
                /\ aPc' = "loop"
                /\ aErr' = "none"
             \/ /\ num <= 1
                /\ tRdt' = 1
                /\ tDtNaN' = FALSE
                /\ aPc' = "raised"
                /\ aErr' = "ValueError"
    /\ UNCHANGED <<aKind, aResult, cirVars, elimVars, noiseVars>>

\* X[-1] and X[-2]
Last(X) == X[Len(X)]

Last2(X) == X[Len(X) - 1]

\* The reduced system of one Tran_spec step: G and u after G += Geq,
\* u += ueq and remove_row_col((G, u), irefnode).
\* Gobj and uobj are the arrays received from cir.G and cir.u as the
\* in-place G += Geq and u += ueq leave them.
TranSpecSystem(G, C, u, X, rdt, iref) ==
    LET Geq == MatScale(rdt, C)
        ueq == VecNeg(MatVec(Geq, Last2(X)))
        red == remove_row_col(<<MatAdd(G, Geq), VecAdd(u, ueq)>>, iref).value
    IN  [G |-> red[1], u |-> red[2], Gobj |-> MatAdd(G, Geq), uobj |-> VecAdd(u, ueq)]

\* An array all of whose entries are nan.
NaNM(n) == Mat(n, n, [i \in 1..n |-> [j \in 1..n |-> NaN]])

NaNV(n) == Vec([i \in 1..n |-> NaN])

\* The array the circuit keeps and hands out holds nan from an earlier step.
Poisoned == cShared /\ (cG.now = NaNM(CirN) \/ cU.now = NaNV(CirN))

\* One pass of the loop of Tran_spec.solve with a finite step dt.
TranSpecStep ==
    /\ aKind = "Tran_spec"
    /\ aPc = "loop"
    /\ tK < tNum
    /\ ~tDtNaN
    /\ ~Poisoned
    /\ \E G \in {StampG(cCir, cShared, cG, Last(tX))},
          u \in {StampU(cCir, cShared, cU, Last(tX))} :
       \E sys \in {TranSpecSystem(G, CirC(cCir, Last(tX)), u, tX, tRdt, cIref)} :
          /\ Representable(sys.G, VecNeg(sys.u))
          /\ cG' = [given |-> G, now |-> sys.Gobj]
          /\ cU' = [given |-> u, now |-> sys.uobj]
          /\ \E sol \in {LinSolve(sys.G, VecNeg(sys.u))} :
               IF sol.status = "ok"
               THEN /\ tX' = Append(tX, Vec(Reinsert(sol.x.data, cIref)))
                    /\ tK' = tK + 1
                    /\ UNCHANGED <<aPc, aErr, tSingular>>
               ELSE /\ aPc' = "raised"
                    /\ aErr' = "LinAlgError"
                    /\ tSingular' = TRUE
                    /\ UNCHANGED <<tX, tK>>
    /\ UNCHANGED <<aKind, aResult, aRet, tNum, tRdt, tDtNaN>>
    /\ UNCHANGED <<cIref, cCir, cShared, elimVars, noiseVars>>

\* One pass of the loop of Tran_spec.solve with the step nan, or with nan
\* in the arrays the circuit hands out: Geq, G and u are all nan, and
\* linalg.solve gives nan entries or raises.
TranSpecStepNaN ==
    /\ aKind = "Tran_spec"
    /\ aPc = "loop"
    /\ tK < tNum
    /\ tDtNaN \/ Poisoned
    /\ cG' = [given |-> StampG(cCir, cShared, cG, Last(tX)), now |-> NaNM(CirN)]
    /\ cU' = [given |-> StampU(cCir, cShared, cU, Last(tX)), now |-> NaNV(CirN)]
    /\ \/ /\ tX' = Append(tX, Vec(Reinsert([i \in 1..(CirN - 1) |-> NaN], cIref)))
          /\ tK' = tK + 1
          /\ UNCHANGED <<aPc, aErr>>
       \/ /\ aPc' = "raised"
          /\ aErr' = "LinAlgError"
          /\ UNCHANGED <<tX, tK>>
    /\ UNCHANGED <<aKind, aResult, aRet, tNum, tRdt, tDtNaN, tSingular>>
    /\ UNCHANGED <<cIref, cCir, cShared, elimVars, noiseVars>>

\* The end of Tran_spec.solve: self.result = X; return x.
TranSpecFinish ==
    /\ aKind = "Tran_spec"
    /\ aPc = "loop"
    /\ tK = tNum
    /\ aResult' = States(tX)
    /\ aRet' = States(<<Last(tX)>>)
    /\ aPc' = "returned"
    /\ tX' = <<>>
    /\ UNCHANGED <<aKind, aErr, tNum, tK, tRdt, tDtNaN, tSingular>>
    /\ UNCHANGED <<cirVars, elimVars, noiseVars>>

\* One pass of the loop of Tran_imp.solve: solve_timestep calls fsolve,
\* a name the module neither defines nor imports (it imports
\* scipy.optimize only): NameError.
TranImpStep ==
    /\ aKind = "Tran_imp"
    /\ aPc = "loop"
    /\ tK < tNum
    /\ aPc' = "raised"
    /\ aErr' = "NameError"
    /\ UNCHANGED <<aKind, aResult, aRet, tX, tNum, tK, tRdt, tDtNaN, tSingular>>
    /\ UNCHANGED <<cirVars, elimVars, noiseVars>>

\* The end of Tran_imp.solve: self.result = X; return (x, t).  It is
\* reached with no time point only, where t is unbound.
TranImpFinish ==
    /\ aKind = "Tran_imp"
    /\ aPc = "loop"
    /\ tK = tNum
    /\ aResult' = States(tX)
    /\ IF tNum = 0
       THEN aPc' = "raised" /\ aErr' = "UnboundLocalError" /\ UNCHANGED aRet
       ELSE aPc' = "returned" /\ aRet' = States(<<Last(tX)>>) /\ UNCHANGED aErr
    /\ UNCHANGED <<aKind, tX, tNum, tK, tRdt, tDtNaN, tSingular>>
    /\ UNCHANGED <<cirVars, elimVars, noiseVars>>

-----------------------------------------------------------------------------
(* AC *)

\* The frequency arguments: one complex frequency s, or an iterable of them.
FreqLists == {<<s>> : s \in Freqs} \cup (Freqs \X Freqs)

\* G, C, u = remove_row_col((G, C, u), irefnode) at x = zeros(n)
ACSystem(G, C, u, iref) ==
    LET red == remove_row_col(<<G, C, u>>, iref).value
    IN  [G |-> red[1], C |-> red[2], u |-> red[3]]

\* solvecircuit(s) handing back the reduced solution as it is.
solvecircuitReduced(sys, s, iref) ==
    LinSolve(MatAdd(MatScale(s, sys.C), sys.G), VecNeg(sys.u))

\* solvecircuit(s): toolkit.linearsolver(s*C + G, -u), reference node
\* voltage inserted.
solvecircuit(sys, s, iref) ==
    LET sol == LinSolve(MatAdd(MatScale(s, sys.C), sys.G), VecNeg(sys.u)) IN
    IF sol.status = "ok"
    THEN [status |-> "ok", x |-> Vec(Reinsert(sol.x.data, iref))]
    ELSE sol

\* Waveform(freqs, value)
Waveform(x, y) == [x |-> x, y |-> y]

\* array(out).swapaxes(0, 1): one row for each entry of the x-vector
Swapaxes(out) ==
    [i \in 1..Len(out[1].data) |-> [j \in 1..Len(out) |-> out[j].data[i]]]

\* CircuitResultAC(cir, x, xac, xacdot)
CircuitResultAC(xdcop, xac, xacdot, iter) ==
    [set |-> TRUE, X |-> xac, Xdot |-> xacdot, xdcop |-> xdcop, iter |-> iter]

\* AC.solve(freqs) with an iterable freqs
ACSolveList ==
    /\ aKind = "AC"
    /\ aPc \in {"idle", "returned", "raised"}
    /\ cG' = Handed(StampG(cCir, cShared, cG, Zeros(CirN)))
    /\ cU' = Handed(StampU(cCir, cShared, cU, Zeros(CirN)))
    /\ \E ss \in FreqLists :
       \E sys \in {ACSystem(cG'.now, CirC(cCir, Zeros(CirN)), cU'.now, cIref)} :
          /\ \A j \in 1..Len(ss) :
                Representable(MatAdd(MatScale(ss[j], sys.C), sys.G), VecNeg(sys.u))
          /\ \E out \in {[j \in 1..Len(ss) |-> solvecircuit(sys, ss[j], cIref)]} :
               IF \A j \in 1..Len(ss) : out[j].status = "ok"
               THEN \E xac \in {[i \in 1..Len(out[1].x.data) |->
                                   Waveform(ss, Swapaxes([j \in 1..Len(ss) |-> out[j].x])[i])]} :
                      /\ aResult' = CircuitResultAC(Zeros(CirN), xac,
                                       [i \in 1..Len(xac) |->
                                          Waveform(ss, [j \in 1..Len(ss) |-> ss[j] * xac[i].y[j]])],
                                       TRUE)
                      /\ aRet' = aResult'
                      /\ aPc' = "returned"
                      /\ aErr' = "none"
               ELSE /\ aPc' = "raised"
                    /\ aErr' = "LinAlgError"
                    /\ aRet' = NoStates
                    /\ UNCHANGED aResult
    /\ UNCHANGED <<aKind, tX, tNum, tK, tRdt, tDtNaN, tSingular>>
    /\ UNCHANGED <<cIref, cCir, cShared, elimVars, noiseVars>>

\* AC.solve(freqs) with one frequency.  CircuitResult.__init__ tests
\* x != None on the solution array: one truth value, or (numpy 1.13 and
\* later) an array whose truth value is a ValueError.
ACSolvePoint ==
    /\ aKind = "AC"
    /\ aPc \in {"idle", "returned", "raised"}
    /\ cG' = Handed(StampG(cCir, cShared, cG, Zeros(CirN)))
    /\ cU' = Handed(StampU(cCir, cShared, cU, Zeros(CirN)))
    /\ \E s \in Freqs :
       \E sys \in {ACSystem(cG'.now, CirC(cCir, Zeros(CirN)), cU'.now, cIref)} :
          /\ Representable(MatAdd(MatScale(s, sys.C), sys.G), VecNeg(sys.u))
          /\ \E xac \in {solvecircuit(sys, s, cIref)} :
               IF xac.status = "ok"
               THEN \/ /\ aResult' = CircuitResultAC(Zeros(CirN), xac.x,
                                        Vec([i \in 1..Len(xac.x.data) |-> s * xac.x.data[i]]),
                                        FALSE)
                       /\ aRet' = aResult'
                       /\ aPc' = "returned"
                       /\ aErr' = "none"
                    \/ /\ aPc' = "raised"
                       /\ aErr' = "ValueError"
                       /\ aRet' = NoStates
                       /\ UNCHANGED aResult
               ELSE /\ aPc' = "raised"
                    /\ aErr' = "LinAlgError"
                    /\ aRet' = NoStates
                    /\ UNCHANGED aResult
    /\ UNCHANGED <<aKind, tX, tNum, tK, tRdt, tDtNaN, tSingular>>
    /\ UNCHANGED <<cIref, cCir, cShared, elimVars, noiseVars>>

-----------------------------------------------------------------------------
(* TransimpedanceAnalysis *)

\* Branch(plus, minus) objects a caller may put in outbranches; ib is
\* the number of the branch in the circuit.
OutBranches == {b \in [plus : NodeIdx, minus : NodeIdx, ib : 0..(NumBranches - 1)] :
                   b.plus # b.minus}

\* The branches of the circuit itself: branch ib runs from node ib + 1 to
\* node 0.
CirBranches == {b \in OutBranches : b.plus = b.ib + 1 /\ b.minus = 0}

\* The branch the other way round.
Reversed(b) == [b EXCEPT !.plus = b.minus, !.minus = b.plus]

\* The lists outbranches: none, one branch, or a branch and its reverse.
OutBranchLists ==
    {<<>>} \cup {<<b>> : b \in OutBranches} \cup {<<b, Reversed(b)>> : b \in OutBranches}

\* Yreciprocal = G.T + s*C.T after G, C = remove_row_col((G, C), irefnode)
Yreciprocal(G, C, iref, s) ==
    LET red == remove_row_col(<<G, C>>, iref).value
    IN  MatAdd(Transpose(red[1]), MatScale(s, Transpose(red[2])))

\* The stimulus u of one output branch, reference row removed.
TransimpedanceStimulus(branch, currentoutput, iref) ==
    LET u == IF currentoutput
             THEN VecSet(Zeros(CirN), get_branch_index(branch.ib), 0 - 1)
             ELSE VecSet(VecSet(Zeros(CirN), branch.plus, 0 - 1), branch.minus, 1)
    IN  remove_row_col(<<u>>, iref).value[1]

\* TransimpedanceAnalysis.solve: the list of toolkit.linearsolver(
\* Yreciprocal, -u), one for each branch; self.result is not written.
\* With currentoutput the branches are branches of the circuit.
TransimpedanceSolve ==
    /\ aKind = "Transimpedance"
    /\ aPc \in {"idle", "returned", "raised"}
    /\ cG' = Handed(StampG(cCir, cShared, cG, Zeros(CirN)))
    /\ \E s \in Freqs, outbranches \in OutBranchLists, currentoutput \in BOOLEAN :
       \E Y \in {Yreciprocal(cG'.now, CirC(cCir, Zeros(CirN)), cIref, s)} :
          /\ currentoutput => \A b \in 1..Len(outbranches) : outbranches[b] \in CirBranches
          /\ \A b \in 1..Len(outbranches) :
                Representable(Y, VecNeg(TransimpedanceStimulus(outbranches[b],
                                                               currentoutput, cIref)))
          /\ \E result \in {[b \in 1..Len(outbranches) |->
                               LinSolve(Y, VecNeg(TransimpedanceStimulus(outbranches[b],
                                                         currentoutput, cIref)))]} :
               IF \A b \in 1..Len(outbranches) : result[b].status = "ok"
               THEN /\ aRet' = States([b \in 1..Len(outbranches) |-> result[b].x])
                    /\ aPc' = "returned"
                    /\ aErr' = "none"
               ELSE /\ aRet' = NoStates
                    /\ aPc' = "raised"
                    /\ aErr' = "LinAlgError"
    /\ UNCHANGED <<aKind, aResult, tX, tNum, tK, tRdt, tDtNaN, tSingular>>
    /\ UNCHANGED <<cIref, cCir, cShared, cU, elimVars, noiseVars>>

-----------------------------------------------------------------------------
(* Noise *)

NoneArg == [type |-> "none", name |-> ""]

StrArg(name) == [type |-> "str", name |-> name]

\* An element instance passed instead of its name.
ObjArg(name) == [type |-> "obj", name |-> name]

SrcArgs == {NoneArg, StrArg("vs"), StrArg("is"), StrArg("R1"), StrArg(""), ObjArg("vs")}

NoNodes == [given |-> FALSE, plus |-> 0, minus |-> 0]

NodesArgs == {NoNodes} \cup {[given |-> TRUE, plus |-> p, minus |-> m] : p, m \in NodeIdx}

NoError == [type |-> "none", msg |-> ""]

ValueError(msg) == [type |-> "ValueError", msg |-> msg]

\* type(x) is types.StringType
IsString(arg) == arg.type = "str"

\* Python truth of a None, a string or an object.
Truthy(arg) == arg.type = "obj" \/ (arg.type = "str" /\ arg.name # "")

\* The output check letting both outputs through.
OutputSpecErrorNoBoth(outputnodes, outputsrc) ==
    IF ~(outputnodes.given \/ outputsrc.type # "none")
    THEN ValueError("Output is not specified")
    ELSE NoError

\* if not (outputnodes != None or outputsrc != None): raise ...
\* elif outputnodes != None and outputsrc != None: raise ...
OutputSpecError(outputnodes, outputsrc) ==
    IF ~(outputnodes.given \/ outputsrc.type # "none")
    THEN ValueError("Output is not specified")
    ELSE IF outputnodes.given /\ outputsrc.type # "none"
         THEN ValueError("Cannot measure both output current and voltage noise")
         ELSE NoError

\* if not (type(inputsrc) is types.StringType and outputsrc == None or
\*         type(outputsrc) is types.StringType): raise ...
\* Python's `and` binds tighter than `or`.
SourcesError(inputsrc, outputsrc) ==
    IF ~((IsString(inputsrc) /\ outputsrc.type = "none") \/ IsString(outputsrc))
    THEN ValueError("Sources must be given as instance names")
    ELSE NoError

NoSelf == [inputsrc_name |-> NoneArg, inputsrc |-> "unset", outputnodes |-> NoNodes,
           outputsrc_name |-> NoneArg, outputsrc |-> "unset", result |-> "None"]

\* Noise.__init__: the error raised and the attributes set.
NoiseInitOutcome(inputsrc, outputnodes, outputsrc) ==
    LET e1 == OutputSpecError(outputnodes, outputsrc)
        e2 == SourcesError(inputsrc, outputsrc)
        inp == CirLookup(inputsrc)
        out == CirLookup(outputsrc)
    IN  IF e1 # NoError THEN [err |-> e1, self |-> NoSelf]
        ELSE IF e2 # NoError THEN [err |-> e2, self |-> NoSelf]
        ELSE IF ~inp.ok
             THEN [err |-> [type |-> "LookupError", msg |-> "inputsrc"], self |-> NoSelf]
        ELSE IF Truthy(outputsrc) /\ ~out.ok
             THEN [err |-> [type |-> "LookupError", msg |-> "outputsrc"], self |-> NoSelf]
        ELSE [err |-> NoError,
              self |-> [inputsrc_name |-> inputsrc, inputsrc |-> inp.kind,
                        outputnodes |-> outputnodes, outputsrc_name |-> outputsrc,
                        outputsrc |-> IF Truthy(outputsrc) THEN out.kind ELSE "unset",
                        result |-> "None"]]

NoResult == [keys |-> {}, val |-> [k \in {} |-> 0]]

NoiseIdle ==
    /\ nPc = "new"
    /\ nArgs = [inputsrc |-> NoneArg, outputnodes |-> NoNodes, outputsrc |-> NoneArg]
    /\ nErr = NoError
    /\ nSelf = NoSelf
    /\ nRes = NoResult

\* Noise(circuit, inputsrc=.., outputnodes=.., outputsrc=..)
NoiseConstruct ==
    /\ nPc = "new"
    /\ \E inputsrc \in SrcArgs, outputnodes \in NodesArgs, outputsrc \in SrcArgs :
          LET o == NoiseInitOutcome(inputsrc, outputnodes, outputsrc) IN
          /\ nArgs' = [inputsrc |-> inputsrc, outputnodes |-> outputnodes,
                       outputsrc |-> outputsrc]
          /\ nErr' = o.err
          /\ nSelf' = o.self
          /\ nPc' = IF o.err = NoError THEN "constructed" ELSE "ctorFailed"
    /\ UNCHANGED <<nRes, cirVars, elimVars, solveVars>>

\* Numbers of the result mapping: (re + i im) / den; den = 0 is the inf or
\* nan a division by zero leaves.
Num(re, im, den) == [re |-> re, im |-> im, den |-> den]

\* abs(gain)**2
AbsSq(g) == g.re * g.re + g.im * g.im

\* gain**2
Square(g) == Num(g.re * g.re - g.im * g.im, 2 * g.re * g.im, g.den * g.den)

\* x / d for a real d
DivReal(x, d) == Num(x.re, x.im, x.den * d)

\* The gains cir.extract_i and cir.extract_v may return.
GainValues == {Num(re, im, 1) : re \in (0 - MaxGain)..MaxGain, im \in (0 - MaxGain)..MaxGain}

\* Input-referred noise divided by the gain's square instead of |gain|^2.
InputReferredBySquare(xn2out, gain) ==
    Num(xn2out.re * (gain.re * gain.re - gain.im * gain.im),
        0 - xn2out.re * 2 * gain.re * gain.im,
        AbsSq(gain) * AbsSq(gain))

\* xn2out / abs(gain)**2
InputReferred(xn2out, gain) == DivReal(xn2out, AbsSq(gain))

\* The adjoint excitation u of Noise.solve.
NoiseExcitation(self) ==
    IF self.outputnodes.given
    THEN [ok |-> TRUE,
          u |-> VecSet(VecSet(Zeros(CirN), self.outputnodes.plus, 0 - 1),
                       self.outputnodes.minus, 1)]
    ELSE LET b == TerminalBranch(self.outputsrc_name.name) IN
         IF b.ok
         THEN [ok |-> TRUE, u |-> VecSet(Zeros(CirN), get_branch_index(b.branch), 0 - 1)]
         ELSE [ok |-> FALSE, u |-> Zeros(CirN)]

\* The reduced adjoint system of Noise.solve: Yreciprocal, u and CY after
\* remove_row_col((G, C, u, CY), irefnode).
NoiseSystem(self, iref, G, C, CY, s) ==
    LET red == remove_row_col(<<G, C, NoiseExcitation(self).u, CY>>, iref).value IN
    [Y  |-> MatAdd(Transpose(red[1]), MatScale(s, Transpose(red[2]))),
     u  |-> red[3],
     CY |-> red[4]]

\* The input-referred keys named after the output kind.
GainKeysByOutput(self, xn2out, gain) ==
    IF self.inputsrc \in {"VS", "IS"}
    THEN [keys |-> {"gain", IF self.outputnodes.given THEN "Svninp" ELSE "Sininp"},
          val  |-> [k \in {"gain", IF self.outputnodes.given THEN "Svninp" ELSE "Sininp"} |->
                      IF k = "gain" THEN gain ELSE InputReferred(xn2out, gain)]]
    ELSE [keys |-> {}, val |-> [k \in {} |-> gain]]

\* The gain and input-referred entries Noise.solve adds: by the kind of
\* the input source, none when it is neither a VS nor an IS.
GainKeys(self, xn2out, gain) ==
    IF self.inputsrc = "VS"
    THEN [keys |-> {"gain", "Svninp"},
          val  |-> [k \in {"gain", "Svninp"} |->
                      IF k = "gain" THEN gain ELSE InputReferred(xn2out, gain)]]
    ELSE IF self.inputsrc = "IS"
    THEN [keys |-> {"gain", "Sininp"},
          val  |-> [k \in {"gain", "Sininp"} |->
                      IF k = "gain" THEN gain ELSE InputReferred(xn2out, gain)]]
    ELSE [keys |-> {}, val |-> [k \in {} |-> gain]]

\* The output-noise entry of the result: by the kind of the output.
OutputKey(self) == IF self.outputnodes.given THEN "Svnout" ELSE "Sinout"

\* Noise.solve once zm is solved for: the error raised, or the mapping
\* returned.
NoiseSolveOutcome(self, sys, sol, gain) ==
    LET zm     == sol.x
        xn2out == Num(Dot(VecMat(zm, sys.CY), zm), 0, 1)
        gk     == GainKeys(self, xn2out, gain)
    IN  IF ~NoiseExcitation(self).ok
        THEN [err |-> [type |-> "LookupError", msg |-> "outputsrc branch"], res |-> NoResult]
        ELSE IF sol.status # "ok"
        THEN [err |-> [type |-> "SolverError", msg |-> "singular"], res |-> NoResult]
        ELSE [err |-> NoError,
              res |-> [keys |-> {OutputKey(self)} \cup gk.keys,
                       val  |-> [k \in {OutputKey(self)} \cup gk.keys |->
                                   IF k = OutputKey(self) THEN xn2out ELSE gk.val[k]]]]

\* Noise.solve(s, complexfreq=True) on a constructed analysis
NoiseSolve ==
    /\ nPc = "constructed"
    /\ \E G \in GStamps, C \in CStamps, CY \in CYStamps, s \in Freqs :
        \E sys \in {NoiseSystem(nSelf, cIref, G, C, CY, s)} :
          /\ Representable(sys.Y, VecNeg(sys.u))
          /\ \E sol \in {LinSolve(sys.Y, VecNeg(sys.u))}, gain \in GainValues :
               \E o \in {NoiseSolveOutcome(nSelf, sys, sol, gain)} :
                 /\ nErr' = o.err
                 /\ nRes' = o.res
                 /\ nPc' = IF o.err = NoError THEN "solved" ELSE "solveFailed"
    /\ UNCHANGED <<nArgs, nSelf, cirVars, elimVars, solveVars>>

NoiseInit ==
    /\ NoiseIdle
    /\ cIref \in NodeIdx
    /\ cCir = AnyCircuit
    /\ cShared = FALSE
    /\ FreshStamps(cCir)
    /\ ePc = "unused"
    /\ eArgs = <<>>
    /\ eR = 0
    /\ eOut = [status |-> "none", value |-> <<>>]
    /\ eBack = <<>>
    /\ SolveIdle("none")

NoiseNext == NoiseConstruct \/ NoiseSolve

SpecNoise == NoiseInit /\ [][NoiseNext]_vars

-----------------------------------------------------------------------------
(* remove_row_col and the reinsertion on bounded inputs *)

\* The matrix of the given shape whose entry at (i, j) encodes its position.
IdxMatrix(rows, cols) ==
    Mat(rows, cols, [i \in 1..rows |-> [j \in 1..cols |-> 10 * i + j]])

ElimVectors == UNION {{Vec(d) : d \in [1..n -> 1..MaxElem]} : n \in 1..MaxN}

ElimMatrices == {IdxMatrix(rows, cols) : rows \in 1..MaxN, cols \in 1..MaxN}

\* The argument tuples: one array, or a matrix and a vector in either order,
\* of equal or of different dimensions.
ArgsInit ==
    \/ \E A \in ElimVectors : eArgs = <<A>>
    \/ \E A \in ElimMatrices : eArgs = <<A>>
    \/ \E A \in ElimMatrices, B \in ElimVectors : eArgs = <<A, B>>
    \/ \E A \in ElimVectors, B \in ElimMatrices : eArgs = <<A, B>>

ElimInit ==
    /\ ePc = "input"
    /\ ArgsInit
    /\ eR \in (0 - MaxN - 1)..(MaxN + 1)
    /\ eOut = [status |-> "none", value |-> <<>>]
    /\ eBack = <<>>
    /\ cIref = 0
    /\ cCir = AnyCircuit
    /\ cShared = FALSE
    /\ FreshStamps(cCir)
    /\ NoiseIdle
    /\ SolveIdle("none")

Eliminate ==
    /\ ePc = "input"
    /\ eOut' = remove_row_col(eArgs, eR)
    /\ ePc' = "eliminated"
    /\ UNCHANGED <<eArgs, eR, eBack, cirVars, noiseVars, solveVars>>

\* The solvers' reinsertion, applied to every vector output.
ReinsertStep ==
    /\ ePc = "eliminated"
    /\ eOut.status = "ok"
    /\ eBack' = [a \in 1..Len(eOut.value) |->
                    IF NDim(eOut.value[a]) = 1
                    THEN Vec(Reinsert(eOut.value[a].data, eR))
                    ELSE eOut.value[a]]
    /\ ePc' = "reinserted"
    /\ UNCHANGED <<eArgs, eR, eOut, cirVars, noiseVars, solveVars>>

ElimNext == Eliminate \/ ReinsertStep

SpecElim == ElimInit /\ [][ElimNext]_vars

-----------------------------------------------------------------------------
(* Properties of the elimination *)

\* The dimensions found along every axis of every argument.
ArgDims(args) == UNION {{args[a].shape[k] : k \in 1..NDim(args[a])} : a \in 1..Len(args)}

\* The arguments share one dimension n along every axis, and 0 <= r < n.
ValidElimInput(args, r) ==
    /\ Cardinality(ArgDims(args)) = 1
    /\ \A n \in ArgDims(args) : 0 <= r /\ r < n

\* The index in the input of the entry that ends at Python index i.
Survivor(i, r) == IF i >= r THEN i + 1 ELSE i

\* C1: removing element r of a length-n vector (0 <= r < n) with
\* remove_row_col and reinserting a zero at r gives a vector of length n
\* that equals the input at every index but r and is 0 at index r.
C1_RoundTrip ==
    ePc = "reinserted" =>
        \A a \in 1..Len(eArgs) :
            LET v == eArgs[a] IN
            (NDim(v) = 1 /\ 0 <= eR /\ eR < v.shape[1]) =>
                /\ eBack[a].shape = v.shape
                /\ Len(eBack[a].data) = v.shape[1]
                /\ \A i \in 0..(v.shape[1] - 1) :
                       eBack[a].data[i + 1] = (IF i = eR THEN 0 ELSE v.data[i + 1])

\* An inner element of a vector of length >= 3 went through the round trip.
C1_Witness ==
    /\ ePc = "reinserted"
    /\ \E a \in 1..Len(eArgs) :
          /\ NDim(eArgs[a]) = 1
          /\ eArgs[a].shape[1] >= 3
          /\ 0 < eR /\ eR < eArgs[a].shape[1] - 1
          /\ eBack[a].data[eR + 1] = 0

\* C2: for n x n matrices and length-n vectors and 0 <= r < n,
\* remove_row_col returns one output per argument in argument order, each
\* matrix (n-1) x (n-1) and each vector of length n-1, with
\* output[i][j] = input[i + (i >= r)][j + (j >= r)] and
\* output[i] = input[i + (i >= r)].
C2_ShapeAndOrder ==
    (ePc = "eliminated" /\ ValidElimInput(eArgs, eR)) =>
        /\ eOut.status = "ok"
        /\ Len(eOut.value) = Len(eArgs)
        /\ \A a \in 1..Len(eArgs) :
              LET A == eArgs[a]
                  B == eOut.value[a]
                  n == A.shape[1]
              IN  IF NDim(A) = 1
                  THEN /\ B.shape = <<n - 1>>
                       /\ Len(B.data) = n - 1
                       /\ \A i \in 0..(n - 2) :
                              B.data[i + 1] = A.data[Survivor(i, eR) + 1]
                  ELSE /\ B.shape = <<n - 1, n - 1>>
                       /\ Len(B.data) = n - 1
                       /\ \A i \in 0..(n - 2) :
                              /\ Len(B.data[i + 1]) = n - 1
                              /\ \A j \in 0..(n - 2) :
                                     B.data[i + 1][j + 1] =
                                         A.data[Survivor(i, eR) + 1][Survivor(j, eR) + 1]

\* A 3 x 3 matrix and a length-3 vector lost their middle index together.
C2_Witness ==
    /\ ePc = "eliminated"
    /\ ValidElimInput(eArgs, eR)
    /\ Len(eArgs) = 2
    /\ NDim(eArgs[1]) = 2
    /\ eArgs[1].shape = <<3, 3>>
    /\ eR = 1
    /\ eOut.value[1].data = <<<<11, 13>>, <<31, 33>>>>

\* C3: remove_row_col fails, and returns no result, whenever r is outside
\* [0, n) or the arguments do not all share the same dimension n.
C3_FailsOnInvalid ==
    (ePc = "eliminated" /\ ~ValidElimInput(eArgs, eR)) => eOut.status = "error"

-----------------------------------------------------------------------------
(* Properties of Noise *)

\* Exactly one of outputnodes and outputsrc was given to the constructor.
ExactlyOneOutput == nArgs.outputnodes.given # (nArgs.outputsrc.type # "none")

\* C4: constructing a Noise analysis fails with a ValueError, before any
\* solve, when neither outputnodes nor outputsrc is given and when both
\* are; construction succeeds only when exactly one is given.
C4_OutputValidation ==
    nPc # "new" =>
        /\ ~ExactlyOneOutput =>
              (nPc = "ctorFailed" /\ nErr.type = "ValueError" /\ nRes = NoResult)
        /\ nPc \in {"constructed", "solved", "solveFailed"} => ExactlyOneOutput

\* Construction was refused because both outputs were given.
C4_Witness ==
    /\ nPc = "ctorFailed"
    /\ nArgs.outputnodes.given
    /\ nArgs.outputsrc = StrArg("vs")
    /\ nArgs.inputsrc = StrArg("vs")
    /\ nErr = ValueError("Cannot measure both output current and voltage noise")

\* C5: for every inputsrc and outputsrc (absent, a string name or an
\* object), with the output specified by exactly one of outputnodes and
\* outputsrc, construction raises 'Sources must be given as instance
\* names' if and only if some source that is given is not a string name.
C5_SourceValidation ==
    (nPc \in {"constructed", "ctorFailed"} /\ ExactlyOneOutput) =>
        ((nErr = ValueError("Sources must be given as instance names"))
           <=> (\/ nArgs.inputsrc.type = "obj"
                \/ nArgs.outputsrc.type = "obj"))

\* The keys of the result other than 'gain'.
NoiseKeys == nRes.keys \ {"gain"}

\* C6 as claimed: the result holds 'gain' always, and exactly Svnout and
\* Svninp for a voltage output, exactly Sinout and Sininp for a current
\* output, whatever the input source is.
C6_KeysByOutputKind ==
    nPc = "solved" =>
        /\ "gain" \in nRes.keys
        /\ nSelf.outputnodes.given => NoiseKeys = {"Svnout", "Svninp"}
        /\ ~nSelf.outputnodes.given => NoiseKeys = {"Sinout", "Sininp"}

\* C6 as amended: the output-noise key follows the output kind (Svnout for
\* outputnodes, Sinout for outputsrc); 'gain' and the input-referred key
\* follow the kind of the input source: gain and Svninp for a voltage
\* source, gain and Sininp for a current source, none of them otherwise.
C6_KeysByOutputAndInput ==
    nPc = "solved" =>
        nRes.keys =
            {IF nSelf.outputnodes.given THEN "Svnout" ELSE "Sinout"}
              \cup (IF nSelf.inputsrc = "VS" THEN {"gain", "Svninp"}
                    ELSE IF nSelf.inputsrc = "IS" THEN {"gain", "Sininp"}
                    ELSE {})

\* A voltage output referred to a current source: Svnout with Sininp.
C6_Witness ==
    /\ nPc = "solved"
    /\ nSelf.outputnodes.given
    /\ nSelf.inputsrc = "IS"
    /\ nRes.keys = {"Svnout", "Sininp", "gain"}

\* a * b
NumMul(a, b) ==
    Num(a.re * b.re - a.im * b.im, a.re * b.im + a.im * b.re, a.den * b.den)

\* a == b for finite numbers
NumEq(a, b) ==
    /\ a.den # 0
    /\ b.den # 0
    /\ a.re * b.den = b.re * a.den
    /\ a.im * b.den = b.im * a.den

\* The output noise and the input-referred noise of the result.
OutputNoise == nRes.val[CHOOSE k \in nRes.keys : k \in {"Svnout", "Sinout"}]

InputNoise == nRes.val[CHOOSE k \in nRes.keys : k \in {"Svninp", "Sininp"}]

HasGain == nPc = "solved" /\ "gain" \in nRes.keys

\* C7 as claimed: input_referred * gain^2 == output_noise for every gain
\* the extraction returns, real or complex.
C7_GainSquared ==
    HasGain => NumEq(NumMul(InputNoise, Square(nRes.val["gain"])), OutputNoise)

\* C7 as amended: input_referred * |gain|^2 == output_noise for every
\* nonzero gain, real or complex.
C7_AbsGainSquared ==
    (HasGain /\ AbsSq(nRes.val["gain"]) # 0) =>
        NumEq(NumMul(InputNoise, Num(AbsSq(nRes.val["gain"]), 0, 1)), OutputNoise)

\* A gain off the real axis referred a nonzero output noise to the input.
C7_Witness ==
    /\ HasGain
    /\ nRes.val["gain"].im # 0
    /\ nRes.val["gain"].re # 0
    /\ OutputNoise.re # 0

-----------------------------------------------------------------------------
(* The analyses on one circuit *)

SolveInit ==
    /\ cIref \in NodeIdx
    /\ cCir \in Circuits
    /\ cShared = FALSE
    /\ FreshStamps(cCir)
    /\ \E kind \in {"Tran_spec", "Tran_imp", "AC", "Transimpedance"} :
          /\ SolveIdle(kind)
          /\ kind \in {"AC", "Transimpedance"} => cCir.g1 = cCir.g0
    /\ NoiseIdle
    /\ ePc = "unused"
    /\ eArgs = <<>>
    /\ eR = 0
    /\ eOut = [status |-> "none", value |-> <<>>]
    /\ eBack = <<>>

SolveNext ==
    \/ TranStart
    \/ TranSpecStep
    \/ TranSpecStepNaN
    \/ TranSpecFinish
    \/ TranImpStep
    \/ TranImpFinish
    \/ ACSolveList
    \/ ACSolvePoint
    \/ TransimpedanceSolve

SpecSolve == SolveInit /\ [][SolveNext]_vars

-----------------------------------------------------------------------------
(* Properties of the analyses *)

\* A step of a transient solve has failed: the error came out of the loop.
StepFailed ==
    /\ aKind \in {"Tran_spec", "Tran_imp"}
    /\ aPc = "raised"
    /\ aErr \in {"LinAlgError", "NameError"}

\* C8: when a step of Tran_spec.solve or Tran_imp.solve fails, the result
\* attribute of the analysis holds the history X of the states accepted
\* before the failure, and is neither None nor the result of an earlier
\* solve.
C8_PartialResultsKept == StepFailed => aResult = States(tX)

\* C9: when the reduced system matrix of a Tran_spec step is singular,
\* solve ends with the error kind SingularMatrix, and returns no state.
C9_SingularMatrixRaised ==
    (aKind = "Tran_spec" /\ tSingular) =>
        aPc = "raised" /\ aErr = "SingularMatrix" /\ aRet = NoStates

\* A vector of length n whose reference-node entry is 0.
FullState(v) == Len(v.data) = CirN /\ v.data[cIref + 1] = 0

\* A vector of length n-1: the reference-node entry is not there.
ReducedState(v) == Len(v.data) = CirN - 1

\* The states a transient result holds from steps: those after the
\* `order` copies of the initial state.
StepStates(kind, X) == {X[k] : k \in (Order(kind) + 1)..Len(X)}

\* The solution points of an AC result: one x-vector for each frequency.
ACPoints(res) ==
    IF res.iter
    THEN {Vec([i \in 1..Len(res.X) |-> res.X[i].y[j]]) : j \in 1..Len(res.X[1].y)}
    ELSE {res.X}

TranSpecStatesFull ==
    (aKind = "Tran_spec" /\ aResult.set) =>
        \A x \in StepStates(aKind, aResult.X) : FullState(x)

ACPointsFull ==
    (aKind = "AC" /\ aResult.set) => \A x \in ACPoints(aResult) : FullState(x)

-----------------------------------------------------------------------------
(* The arrays of the circuit under Tran_spec and AC *)

\* A circuit that keeps its arrays returns them whatever x is: its G does
\* not depend on x.
StampsInit ==
    /\ cIref \in NodeIdx
    /\ cCir \in Circuits
    /\ cShared \in BOOLEAN
    /\ cShared => cCir.g1 = cCir.g0
    /\ FreshStamps(cCir)
    /\ \E kind \in {"Tran_spec", "AC"} :
          /\ SolveIdle(kind)
          /\ kind = "AC" => cCir.g1 = cCir.g0
    /\ NoiseIdle
    /\ ePc = "unused"
    /\ eArgs = <<>>
    /\ eR = 0
    /\ eOut = [status |-> "none", value |-> <<>>]
    /\ eBack = <<>>

StampsNext ==
    \/ TranStart
    \/ TranSpecStep
    \/ TranSpecStepNaN
    \/ TranSpecFinish
    \/ ACSolveList
    \/ ACSolvePoint

SpecStamps == StampsInit /\ [][StampsNext]_vars

\* C11: every array received from cir.G(x) and cir.u(x) holds what it held
\* when the circuit returned it, and the arrays of a circuit that returns
\* the same objects on every call hold what they held before the first
\* step.
C11_StampsUnchanged ==
    /\ cG.now = cG.given
    /\ cU.now = cU.given
    /\ cShared => cG.now = cCir.g0 /\ cU.now = cCir.u

====
